---- MODULE Spec2Model ----
(***************************************************************************)
(* A model of feh::CameraManager (src/camera_manager.h): the tagged        *)
(* variant of camera models, the dispatch of Project / UnProject / Print / *)
(* UpdateState, the cached intrinsics fx_, fy_, cx_, cy_, fl_, and the     *)
(* process-wide instance_.                                                 *)
(*                                                                         *)
(* ftype arithmetic is modelled exactly: values are integers, and the one  *)
(* irrational value, fl_ = sqrt(0.5 * s), is represented by its radicand   *)
(* (SqrtHalf(s) denotes the non-negative real sqrt(s / 2); two such reals  *)
(* are equal exactly when their radicands are).                            *)
(*                                                                         *)
(* Eigen indices are 0-based, TLA+ sequences 1-based: dX(i) is dX[i + 1].  *)
(***************************************************************************)
EXTENDS Integers, Sequences, FiniteSets, TLC

VARIABLES
    instance_,   \* static std::unique_ptr<CameraManager> instance_ (object id or NoInstance)
    mgr,         \* the fields of the CameraManager object instance_ owns
    nextId,      \* identity of the next object the constructor yields
    status,      \* "running", or how the process ended
    fatalMsg,    \* the message of the LOG(FATAL) that ended the process
    lastOp,      \* the last member function called, with its arguments
    ret,         \* what that call returned to its caller (NoRet: nothing)
    vcall,       \* the call the Manager made on a variant during lastOp
    pre,         \* mgr as it was when lastOp was entered
    ctor,        \* mgr as the constructor left it, and the configuration used
    sumDX,       \* per entry 0..3, the sum of the deltas applied since construction
    nUpd,        \* number of UpdateState calls since construction
    createRets,  \* the values Create returned, in order
    instRets,    \* the values instance() returned so far
    early,       \* instance() was called before the first Create
    serialized,  \* callers serialize UpdateState against readers (threads only)
    wpc,         \* writer thread: position inside UpdateState
    wdX,         \* writer thread: the argument of the running UpdateState
    wpre,        \* writer thread: mgr when the running UpdateState was entered
    rpc,         \* reader thread: position inside its read
    obs          \* reader thread: what the read in progress observed

vars == <<instance_, mgr, nextId, status, fatalMsg, lastOp, ret, vcall, pre,
          ctor, sumDX, nUpd, createRets, instRets, early,
          serialized, wpc, wdX, wpre, rpc, obs>>

----------------------------------------------------------------------------
(* Bounds of the model. *)

MaxUpdates == 2     \* UpdateState calls per constructed Manager
MaxCreates == 2     \* Create calls per process
MaxThreadUpdates == 2  \* UpdateState calls of the writer thread

----------------------------------------------------------------------------
(* Values. *)

\* A pointer to the object with identity n; object 0 is no object.
Ptr(n) == [obj |-> n]
NoInstance == Ptr(0)
NoMgr == [tag |-> "none"]
NoRet == [kind |-> "none"]
NoCall == [variant |-> "none"]
NoOp == [op |-> "none"]
NoObs == [kind |-> "none"]

\* The alternatives of std::variant<Unknown, ATAN, EquiDist, RadTan, Pinhole>.
Tags == {"Unknown", "ATAN", "EquiDist", "RadTan", "Pinhole"}
Concrete == Tags \ {"Unknown"}

\* The compile-time parameter count of each model.
DIM(tag) ==
    CASE tag = "ATAN" -> 5
      [] tag = "EquiDist" -> 8
      [] tag = "RadTan" -> 9
      [] tag = "Pinhole" -> 4

\* The largest model's parameter count.
MaxDIM == CHOOSE n \in {DIM(t) : t \in Concrete} : \A t \in Concrete : DIM(t) <= n

\* sqrt(0.5 * s) as an exact real: the non-negative root of s / 2.
SqrtHalf(s) == [sqrtOfHalf |-> s]
\* 2 * r^2 of such a real.
TwiceSquare(r) == r.sqrtOfHalf
\* The real r is the integer n.
IsInteger(r, n) == n >= 0 /\ 2 * n * n = r.sqrtOfHalf

----------------------------------------------------------------------------
(* Inputs. *)

\* Configuration payloads: model name, initial intrinsics, image size.
ModelNames == {"atan", "equidistant", "radtan", "pinhole", "fisheye62"}

SmallCfg(name) ==
    [model |-> name, fx |-> 3, fy |-> 4, cx |-> 2, cy |-> 1, rows |-> 2, cols |-> 3]

ScenarioCfg ==
    [model |-> "pinhole", fx |-> 500, fy |-> 500, cx |-> 320, cy |-> 240,
     rows |-> 480, cols |-> 640]

Configs == {SmallCfg(n) : n \in ModelNames} \cup {ScenarioCfg}

\* Entries 0..3 of the delta vectors tried.
DeltaHeads ==
    {<<1, 1, 0, 0>>, <<-1, 0, 2, 0>>, <<0, -2, 0, 3>>}

\* Lengths of the delta vectors tried: every model's DIM.
DeltaLens == {DIM(t) : t \in Concrete}

\* The delta vector with head h and n entries; entry i >= 4 holds i - 3.
Delta(h, n) == [i \in 1..n |-> IF i <= 4 THEN h[i] ELSE i - 4]

Deltas == {Delta(h, n) : h \in DeltaHeads, n \in DeltaLens}

\* What a read past the end of a vector may yield.
Garbage == {0, 7}

\* Points handed to Project / UnProject.
Points == {"x1", "x2"}

----------------------------------------------------------------------------
(* The camera models (atan.h, equidist.h, radtan.h, pinhole.h) and the     *)
(* constructor (camera_manager.cpp), as section 4.1 and section 6 of the   *)
(* specification describe them.                                            *)

\* The variant alternative a configured model name selects.
TagOfName(name) ==
    CASE name = "atan" -> "ATAN"
      [] name = "equidistant" -> "EquiDist"
      [] name = "radtan" -> "RadTan"
      [] name = "pinhole" -> "Pinhole"
      [] OTHER -> "Unknown"

\* The parameter vector of a freshly configured model: fx, fy, cx, cy first.
InitialParams(tag, cfg) ==
    IF tag = "Unknown" THEN <<>>
    ELSE [i \in 1..DIM(tag) |->
            CASE i = 1 -> cfg.fx [] i = 2 -> cfg.fy [] i = 3 -> cfg.cx
              [] i = 4 -> cfg.cy [] OTHER -> 0]

\* CameraManager::CameraManager(const Json::Value &cfg).
Construct(cfg) ==
    LET tag == TagOfName(cfg.model) IN
    [tag |-> tag,
     p |-> InitialParams(tag, cfg),
     rows_ |-> cfg.rows, cols_ |-> cfg.cols,
     fx_ |-> cfg.fx, fy_ |-> cfg.fy, cx_ |-> cfg.cx, cy_ |-> cfg.cy,
     fl_ |-> SqrtHalf(cfg.fx * cfg.fx + cfg.fy * cfg.fy),
     dim_ |-> IF tag = "Unknown" THEN 0 ELSE DIM(tag)]

\* Model::UpdateState(delta): the additive correction of the model's parameters.
VariantUpdateState(p, d) == [i \in 1..Len(p) |-> p[i] + d[i]]

\* Model::Project / UnProject: a value determined by the model, its
\* parameters, the point and the Jacobian slots handed over.
VariantValue(tag, op, p, x) == [kind |-> "value", by |-> tag, op |-> op, p |-> p, x |-> x]

\* The record of a call made on the active variant.
VariantCall(tag, op, arg, jac, jacc) ==
    [variant |-> tag, op |-> op, arg |-> arg, jac |-> jac, jacc |-> jacc]

----------------------------------------------------------------------------
(* camera_manager.h *)

\* The if / else-if chain over std::holds_alternative: the branch taken.
Dispatch(m) ==
    IF m.tag = "ATAN" THEN "ATAN"
    ELSE IF m.tag = "EquiDist" THEN "EquiDist"
    ELSE IF m.tag = "RadTan" THEN "RadTan"
    ELSE IF m.tag = "Pinhole" THEN "Pinhole"
    ELSE "fatal"

\* LOG(FATAL) << msg: the process ends, the call returns nothing.
Fatal(m, msg) ==
    [status |-> "fatal", msg |-> msg, call |-> NoCall, ret |-> NoRet, m |-> m,
     oob |-> FALSE]

\* A call that returned r after making the variant call c, leaving manager m.
Returned(m, c, r, oob) ==
    [status |-> "running", msg |-> "", call |-> c, ret |-> r, m |-> m, oob |-> oob]

\* CameraManager::Project(xc, jac, jacc) const.
ProjectOutcome(m, xc, jac, jacc) ==
    LET t == Dispatch(m) IN
    IF t = "fatal" THEN Fatal(m, "unknown camera model")
    ELSE Returned(m, VariantCall(t, "Project", xc, jac, jacc),
                  VariantValue(t, "Project", m.p, xc), FALSE)

\* UnProject with the jacc check made after the dispatch instead of before it.
UnProjectCheckAfterDispatch(m, xp, jac, jacc) ==
    LET t == Dispatch(m) IN
    IF t = "fatal" THEN Fatal(m, "unknown camera model")
    ELSE IF jacc
    THEN Returned(m, VariantCall(t, "UnProject", xp, jac, jacc), NoRet, FALSE)
    ELSE Returned(m, VariantCall(t, "UnProject", xp, jac, jacc),
                  VariantValue(t, "UnProject", m.p, xp), FALSE)

\* CameraManager::UnProject(xp, jac, jacc) const.
UnProjectOutcome(m, xp, jac, jacc) ==
    IF jacc
    THEN Fatal(m, "jacobian w.r.t. camera intrinsics (jacc) NOT implemented")
    ELSE LET t == Dispatch(m) IN
         IF t = "fatal" THEN Fatal(m, "unknown camera model")
         ELSE Returned(m, VariantCall(t, "UnProject", xp, jac, jacc),
                       VariantValue(t, "UnProject", m.p, xp), FALSE)

\* CameraManager::Print(out) const.
PrintOutcome(m) ==
    LET t == Dispatch(m) IN
    IF t = "fatal" THEN Fatal(m, "unknown camera model")
    ELSE Returned(m, VariantCall(t, "Print", m.p, FALSE, FALSE), [kind |-> "void"], FALSE)

\* dX.head<n>(): entries 0..n-1; an entry past the end of dX reads g.
HeadN(dX, n, g) == [i \in 1..n |-> IF i <= Len(dX) THEN dX[i] ELSE g]

\* fx_ += dX(0) left out.
AddFxMissing(m, dX) == m
\* fx_ += dX(0);
AddFx(m, dX) == [m EXCEPT !.fx_ = @ + dX[1]]
\* fy_ += dX(0): the wrong entry.
AddFyFromEntry0(m, dX) == [m EXCEPT !.fy_ = @ + dX[1]]
\* fy_ += dX(1);
AddFy(m, dX) == [m EXCEPT !.fy_ = @ + dX[2]]
\* cx_ = dX(2): assignment for accumulation.
AddCxAssigns(m, dX) == [m EXCEPT !.cx_ = dX[3]]
\* cx_ += dX(2);
AddCx(m, dX) == [m EXCEPT !.cx_ = @ + dX[3]]
\* cols_ += dX(3): the wrong field.
AddCyIntoCols(m, dX) == [m EXCEPT !.cols_ = @ + dX[4]]
\* cy_ += dX(3);
AddCy(m, dX) == [m EXCEPT !.cy_ = @ + dX[4]]
\* fl_ = std::sqrt(0.5 * (fx_ * fx_ + fy_ * fy_));
RecomputeFl(m) == [m EXCEPT !.fl_ = SqrtHalf(m.fx_ * m.fx_ + m.fy_ * m.fy_)]

\* The five statements with fl_ recomputed first, from the old fx_ and fy_.
CacheUpdateFlFirst(m, dX) == AddCy(AddCx(AddFy(AddFx(RecomputeFl(m), dX), dX), dX), dX)

\* "also update intrinsics for the camera manager": the five statements in order.
CacheUpdate(m, dX) == RecomputeFl(AddCy(AddCx(AddFy(AddFx(m, dX), dX), dX), dX))

\* Every branch slicing by the largest model's DIM.
ForwardSliceLargest(t, dX, g) == HeadN(dX, MaxDIM, g)

\* The branch of UpdateState taken for alternative t: the variant's own
\* UpdateState on dX.head<T::DIM>().
ForwardSlice(t, dX, g) == HeadN(dX, DIM(t), g)

ForwardUpdate(m, t, dX, g) == [m EXCEPT !.p = VariantUpdateState(m.p, ForwardSlice(t, dX, g))]

\* UpdateState with the cached intrinsics updated before the dispatch.
UpdateStateCacheFirst(m, dX, g, checked) ==
    LET t == Dispatch(m) IN
    IF t = "fatal" THEN Fatal(CacheUpdate(m, dX), "unknown camera model")
    ELSE IF Len(dX) < DIM(t) /\ checked
    THEN [status |-> "abort", msg |-> "eigen assertion", call |-> NoCall,
          ret |-> NoRet, m |-> m, oob |-> TRUE]
    ELSE Returned(CacheUpdate(ForwardUpdate(m, t, dX, g), dX),
                  VariantCall(t, "UpdateState", ForwardSlice(t, dX, g), FALSE, FALSE),
                  [kind |-> "void"], Len(dX) < DIM(t))

\* CameraManager::UpdateState(dX).  A dX shorter than the slice taken is a
\* read past its end: with Eigen's assertions compiled in (checked) the
\* process aborts, without them the read yields g.
UpdateStateOutcome(m, dX, g, checked) ==
    LET t == Dispatch(m) IN
    IF t = "fatal" THEN Fatal(m, "unknown camera model")
    ELSE IF Len(dX) < DIM(t) /\ checked
    THEN [status |-> "abort", msg |-> "eigen assertion", call |-> NoCall,
          ret |-> NoRet, m |-> m, oob |-> TRUE]
    ELSE Returned(CacheUpdate(ForwardUpdate(m, t, dX, g), dX),
                  VariantCall(t, "UpdateState", ForwardSlice(t, dX, g), FALSE, FALSE),
                  [kind |-> "void"], Len(dX) < DIM(t))

\* The accessors.
GetFocalLength == mgr.fl_
\* rows() returning cols_.
rowsReturnsCols == mgr.cols_
rows == mgr.rows_
cols == mgr.cols_
fx == mgr.fx_
fy == mgr.fy_
cx == mgr.cx_
cy == mgr.cy_
dim == mgr.dim_

AccessorNames == {"GetFocalLength", "rows", "cols", "fx", "fy", "cx", "cy", "dim"}

AccessorValue(name) ==
    CASE name = "GetFocalLength" -> GetFocalLength
      [] name = "rows" -> rows
      [] name = "cols" -> cols
      [] name = "fx" -> fx
      [] name = "fy" -> fy
      [] name = "cx" -> cx
      [] name = "cy" -> cy
      [] name = "dim" -> dim

\* instance() handing out a pointer that is not the stored one.
InstanceGetOther == IF createRets = <<>> THEN NoInstance ELSE Ptr(nextId)

\* static CameraManager *instance() { return instance_.get(); }
InstanceGet == instance_

----------------------------------------------------------------------------
(* The single-threaded process: one caller, one call at a time. *)

threadVars == <<serialized, wpc, wdX, wpre, rpc, obs>>
lifeVars == <<instance_, nextId, createRets, instRets, early>>
histVars == <<ctor, sumDX, nUpd>>

Zero4 == <<0, 0, 0, 0>>

\* The state at process start: no Manager exists.
Init ==
    /\ instance_ = NoInstance
    /\ mgr = NoMgr
    /\ nextId = 1
    /\ status = "running"
    /\ fatalMsg = ""
    /\ lastOp = NoOp
    /\ ret = NoRet
    /\ vcall = NoCall
    /\ pre = NoMgr
    /\ ctor = NoMgr
    /\ sumDX = Zero4
    /\ nUpd = 0
    /\ createRets = <<>>
    /\ instRets = {}
    /\ early = FALSE
    /\ serialized = FALSE
    /\ wpc = "idle"
    /\ wdX = <<>>
    /\ wpre = NoMgr
    /\ rpc = "idle"
    /\ obs = NoObs

\* A member function may be called: the process runs and a Manager exists.
Callable == status = "running" /\ instance_ # NoInstance

\* The effect of a member call with outcome o.
Apply(o, op) ==
    /\ status' = o.status
    /\ fatalMsg' = o.msg
    /\ vcall' = o.call
    /\ ret' = o.ret
    /\ mgr' = o.m
    /\ pre' = mgr
    /\ lastOp' = op

\* static CameraManager *Create(cfg): constructs the Manager and stores it
\* in instance_, replacing what instance_ held.
Create(cfg) ==
    /\ status = "running"
    /\ instance_' = Ptr(nextId)
    /\ nextId' = nextId + 1
    /\ mgr' = Construct(cfg)
    /\ createRets' = Append(createRets, Ptr(nextId))
    /\ ctor' = [m |-> Construct(cfg), cfg |-> cfg]
    /\ sumDX' = Zero4
    /\ nUpd' = 0
    /\ pre' = mgr
    /\ lastOp' = [op |-> "Create", cfg |-> cfg]
    /\ ret' = [kind |-> "ptr", val |-> Ptr(nextId)]
    /\ vcall' = NoCall
    /\ UNCHANGED <<status, fatalMsg, instRets, early, threadVars>>

\* static CameraManager *instance().
Instance ==
    /\ status = "running"
    /\ ret' = [kind |-> "ptr", val |-> InstanceGet]
    /\ instRets' = instRets \cup {InstanceGet}
    /\ early' = (early \/ createRets = <<>>)
    /\ lastOp' = [op |-> "instance"]
    /\ pre' = mgr
    /\ vcall' = NoCall
    /\ UNCHANGED <<instance_, mgr, nextId, status, fatalMsg, createRets, histVars,
                   threadVars>>

Project ==
    /\ Callable
    /\ \E xc \in Points, jac \in BOOLEAN, jacc \in BOOLEAN :
          Apply(ProjectOutcome(mgr, xc, jac, jacc),
                [op |-> "Project", arg |-> xc, jac |-> jac, jacc |-> jacc])
    /\ UNCHANGED <<lifeVars, histVars, threadVars>>

UnProject ==
    /\ Callable
    /\ \E xp \in Points, jac \in BOOLEAN, jacc \in BOOLEAN :
          Apply(UnProjectOutcome(mgr, xp, jac, jacc),
                [op |-> "UnProject", arg |-> xp, jac |-> jac, jacc |-> jacc])
    /\ UNCHANGED <<lifeVars, histVars, threadVars>>

PrintTo ==
    /\ Callable
    /\ Apply(PrintOutcome(mgr), [op |-> "Print"])
    /\ UNCHANGED <<lifeVars, histVars, threadVars>>

UpdateState ==
    /\ Callable
    /\ nUpd < MaxUpdates
    /\ \E dX \in Deltas, g \in Garbage, checked \in BOOLEAN :
          LET o == UpdateStateOutcome(mgr, dX, g, checked) IN
          /\ Apply(o, [op |-> "UpdateState", dX |-> dX, oob |-> o.oob])
          /\ sumDX' = IF o.status = "running"
                      THEN [i \in 1..4 |-> sumDX[i] + dX[i]] ELSE sumDX
          /\ nUpd' = IF o.status = "running" THEN nUpd + 1 ELSE nUpd
    /\ UNCHANGED <<lifeVars, ctor, threadVars>>

\* A call of one of the accessors.
Get ==
    /\ Callable
    /\ \E name \in AccessorNames :
          /\ ret' = [kind |-> "value", val |-> AccessorValue(name)]
          /\ lastOp' = [op |-> name]
    /\ pre' = mgr
    /\ vcall' = NoCall
    /\ UNCHANGED <<mgr, status, fatalMsg, lifeVars, histVars, threadVars>>

\* The caller protocol of section 4.4: Create once, then the member calls.
CreateOnce == createRets = <<>> /\ \E cfg \in Configs : Create(cfg)

Next ==
    \/ CreateOnce
    \/ Project
    \/ UnProject
    \/ PrintTo
    \/ UpdateState
    \/ Get

Spec == Init /\ [][Next]_vars

----------------------------------------------------------------------------
(* The lifecycle alone: Create is not guarded against being called again,  *)
(* and instance() may be called at any time.                               *)

CreateAny == Len(createRets) < MaxCreates /\ \E cfg \in Configs : Create(cfg)

NextLife ==
    \/ CreateAny
    \/ Instance
    \/ Project
    \/ UnProject
    \/ PrintTo
    \/ Get

SpecLife == Init /\ [][NextLife]_vars

----------------------------------------------------------------------------
(* Two threads on one Manager: a writer calling UpdateState, whose         *)
(* statements take effect one at a time, and a reader calling Project /    *)
(* UnProject and the accessors.  The Manager holds no lock; serialized     *)
(* says whether the callers exclude each other.                            *)

\* The writer's deltas: as long as the largest model's DIM.
ThreadDeltas == {Delta(h, MaxDIM) : h \in DeltaHeads}

\* Entries 0..3 of the active variant's parameter vector.
Params4(m) == IF m.tag \in Concrete THEN SubSeq(m.p, 1, 4) ELSE <<>>

\* The cached intrinsics.
Cache4(m) == <<m.fx_, m.fy_, m.cx_, m.cy_>>

InitThreads ==
    \E cfg \in Configs :
        /\ instance_ = Ptr(1)
        /\ mgr = Construct(cfg)
        /\ nextId = 2
        /\ status = "running"
        /\ fatalMsg = ""
        /\ lastOp = [op |-> "Create", cfg |-> cfg]
        /\ ret = [kind |-> "ptr", val |-> Ptr(1)]
        /\ vcall = NoCall
        /\ pre = NoMgr
        /\ ctor = [m |-> Construct(cfg), cfg |-> cfg]
        /\ sumDX = Zero4
        /\ nUpd = 0
        /\ createRets = <<Ptr(1)>>
        /\ instRets = {}
        /\ early = FALSE
        /\ serialized \in BOOLEAN
        /\ wpc = "idle"
        /\ wdX = <<>>
        /\ wpre = NoMgr
        /\ rpc = "idle"
        /\ obs = NoObs

seqVars == <<lastOp, ret, pre, lifeVars, ctor, sumDX>>

\* The writer enters UpdateState(dX).
W_Call ==
    /\ status = "running" /\ wpc = "idle"
    /\ nUpd < MaxThreadUpdates
    /\ serialized => rpc = "idle"
    /\ \E dX \in ThreadDeltas : wdX' = dX
    /\ wpre' = mgr
    /\ wpc' = "forward"
    /\ UNCHANGED <<mgr, status, fatalMsg, vcall, nUpd, serialized, rpc, obs, seqVars>>

\* Lines 95-105: the dispatch, and the variant's own UpdateState.
W_Forward ==
    /\ status = "running" /\ wpc = "forward"
    /\ LET t == Dispatch(mgr) IN
       IF t = "fatal"
       THEN /\ status' = "fatal"
            /\ fatalMsg' = "unknown camera model"
            /\ UNCHANGED <<mgr, vcall, wpc>>
       ELSE /\ mgr' = ForwardUpdate(mgr, t, wdX, 0)
            /\ vcall' = VariantCall(t, "UpdateState", ForwardSlice(t, wdX, 0), FALSE, FALSE)
            /\ wpc' = "fx"
            /\ UNCHANGED <<status, fatalMsg>>
    /\ UNCHANGED <<wdX, wpre, nUpd, serialized, rpc, obs, seqVars>>

\* One of lines 107-111.
W_Stmt(at, m, to) ==
    /\ status = "running" /\ wpc = at
    /\ mgr' = m
    /\ wpc' = to
    /\ UNCHANGED <<status, fatalMsg, vcall, wdX, wpre, nUpd, serialized, rpc, obs, seqVars>>

W_AddFx == W_Stmt("fx", AddFx(mgr, wdX), "fy")
W_AddFy == W_Stmt("fy", AddFy(mgr, wdX), "cx")
W_AddCx == W_Stmt("cx", AddCx(mgr, wdX), "cy")
W_AddCy == W_Stmt("cy", AddCy(mgr, wdX), "fl")
W_RecomputeFl == W_Stmt("fl", RecomputeFl(mgr), "return")

\* UpdateState returns.
W_Return ==
    /\ status = "running" /\ wpc = "return"
    /\ wpc' = "idle"
    /\ nUpd' = nUpd + 1
    /\ UNCHANGED <<mgr, status, fatalMsg, vcall, wdX, wpre, serialized, rpc, obs, seqVars>>

\* The reader starts a read of the Manager.
R_Call ==
    /\ status = "running" /\ rpc = "idle"
    /\ mgr.tag \in Concrete
    /\ serialized => wpc = "idle"
    /\ rpc' = "reading"
    /\ UNCHANGED <<mgr, status, fatalMsg, vcall, wdX, wpre, wpc, nUpd, serialized, obs,
                   seqVars>>

\* What the writer's running UpdateState leaves when it has returned.
WriterPost == CacheUpdate(ForwardUpdate(wpre, Dispatch(wpre), wdX, 0), wdX)

\* The values a read of one field may yield: the field's value when no
\* UpdateState runs; under a running UpdateState the read races with the
\* write, and yields the value before or after it.
Readable(now, before, after) == IF wpc = "idle" THEN {now} ELSE {before, after}

\* The reader reads the variant's parameters (Project / UnProject) and the
\* cached intrinsics (the accessors).
R_Read ==
    /\ status = "running" /\ rpc = "reading"
    /\ \E p \in Readable(Params4(mgr), Params4(wpre), Params4(WriterPost)),
          ofx \in Readable(mgr.fx_, wpre.fx_, WriterPost.fx_),
          ofy \in Readable(mgr.fy_, wpre.fy_, WriterPost.fy_),
          ocx \in Readable(mgr.cx_, wpre.cx_, WriterPost.cx_),
          ocy \in Readable(mgr.cy_, wpre.cy_, WriterPost.cy_),
          ofl \in Readable(mgr.fl_, wpre.fl_, WriterPost.fl_) :
          obs' = [kind |-> "read", p |-> p, c |-> <<ofx, ofy, ocx, ocy>>, fl |-> ofl,
                  during |-> wpc]
    /\ rpc' = "done"
    /\ UNCHANGED <<mgr, status, fatalMsg, vcall, wdX, wpre, wpc, nUpd, serialized, seqVars>>

\* The read returns.
R_Return ==
    /\ status = "running" /\ rpc = "done"
    /\ rpc' = "idle"
    /\ obs' = NoObs
    /\ UNCHANGED <<mgr, status, fatalMsg, vcall, wdX, wpre, wpc, nUpd, serialized, seqVars>>

NextThreads ==
    \/ W_Call
    \/ W_Forward
    \/ W_AddFx
    \/ W_AddFy
    \/ W_AddCx
    \/ W_AddCy
    \/ W_RecomputeFl
    \/ W_Return
    \/ R_Call
    \/ R_Read
    \/ R_Return

SpecThreads == InitThreads /\ [][NextThreads]_vars

----------------------------------------------------------------------------
(* Properties. *)

\* UpdateState was the last call and it returned.
Updated == lastOp.op = "UpdateState" /\ status = "running"

\* C1: for every concrete model and every delta, after UpdateState(delta)
\* returns fx() = fx_before + delta[0], fy() = fy_before + delta[1],
\* cx() = cx_before + delta[2], cy() = cy_before + delta[3]; and after any
\* sequence of UpdateState calls each cached value is its constructed value
\* plus the sum of the corresponding delta entries.
C1_UpdateAddsDelta ==
    /\ Updated =>
          /\ fx = pre.fx_ + lastOp.dX[1]
          /\ fy = pre.fy_ + lastOp.dX[2]
          /\ cx = pre.cx_ + lastOp.dX[3]
          /\ cy = pre.cy_ + lastOp.dX[4]
    /\ mgr # NoMgr =>
          /\ fx = ctor.m.fx_ + sumDX[1]
          /\ fy = ctor.m.fy_ + sumDX[2]
          /\ cx = ctor.m.cx_ + sumDX[3]
          /\ cy = ctor.m.cy_ + sumDX[4]

\* Two UpdateState calls with different deltas have returned on a RadTan Manager.
C1_Witness ==
    /\ Updated /\ nUpd = 2 /\ mgr.tag = "RadTan"
    /\ sumDX # [i \in 1..4 |-> 2 * lastOp.dX[i]]
    /\ cx # ctor.m.cx_

\* C2: in every state after construction with a supported model and any
\* sequence of UpdateState calls, the cached fx, fy, cx, cy equal entries
\* 0..3 of the active variant's parameter vector.
C2_CacheMirrorsVariant ==
    (mgr # NoMgr /\ mgr.tag \in Concrete) => Params4(mgr) = Cache4(mgr)

\* Two UpdateState calls have moved the intrinsics of an EquiDist Manager.
C2_Witness ==
    /\ Updated /\ nUpd = 2 /\ mgr.tag = "EquiDist"
    /\ fy # ctor.m.fy_
    /\ Params4(mgr) = Cache4(mgr)

\* C3: after every UpdateState call that returns, GetFocalLength() is
\* sqrt(0.5 * (fx()^2 + fy()^2)) of the updated fx and fy, that is
\* 2 * fl^2 = fx^2 + fy^2; a Pinhole Manager with fx = fy = 500 updated by
\* [1, 1, 0, 0] has fx() = 501, fy() = 501 and fl() = 501.
C3_FocalLengthFromUpdated ==
    Updated =>
        /\ GetFocalLength = SqrtHalf(fx * fx + fy * fy)
        /\ TwiceSquare(GetFocalLength) = fx * fx + fy * fy
        /\ (pre = Construct(ScenarioCfg) /\ SubSeq(lastOp.dX, 1, 4) = <<1, 1, 0, 0>>) =>
              fx = 501 /\ fy = 501 /\ IsInteger(GetFocalLength, 501)

\* The scenario: the Pinhole Manager of 500, 500, 320, 240 updated by [1, 1, 0, 0].
C3_Witness ==
    /\ Updated
    /\ pre = Construct(ScenarioCfg)
    /\ lastOp.dX = <<1, 1, 0, 0>>
    /\ IsInteger(GetFocalLength, 501)
    /\ ~IsInteger(pre.fl_, 501)

\* The operations that dispatch on the active variant.
Dispatching == {"Project", "UnProject", "Print", "UpdateState"}

JaccMsg == "jacobian w.r.t. camera intrinsics (jacc) NOT implemented"

\* C5: UnProject with a non-null jacc ends in the fatal "unsupported
\* Jacobian" state for every active variant, Unset included, before any
\* dispatch: no variant's UnProject is ever called with a non-null jacc.
C5_JaccRejectedFirst ==
    /\ (lastOp.op = "UnProject" /\ lastOp.jacc) =>
          /\ status = "fatal"
          /\ fatalMsg = JaccMsg
          /\ ret = NoRet
          /\ vcall = NoCall
    /\ (vcall # NoCall /\ vcall.op = "UnProject") => ~vcall.jacc

\* UnProject was called with jacc on an Unset Manager.
C5_Witness ==
    /\ lastOp.op = "UnProject" /\ lastOp.jacc /\ pre.tag = "Unknown"
    /\ fatalMsg = JaccMsg

\* The pointer instance_ holds by the Create calls made so far.
Stored == IF createRets = <<>> THEN NoInstance ELSE createRets[Len(createRets)]

\* C6: Create constructs one Manager and stores it in instance_; instance()
\* returns the stored pointer and changes nothing; when Create is called at
\* most once and before any instance() call, every instance() call returns
\* the Manager that Create returned.
C6_SingleInstance ==
    /\ instance_ = Stored
    /\ nextId = Len(createRets) + 1
    /\ lastOp.op = "Create" => (ret.val = instance_ /\ ret.val # NoInstance /\ mgr = ctor.m)
    /\ lastOp.op = "instance" => (ret.val = instance_ /\ mgr = pre)
    /\ (Len(createRets) = 1 /\ ~early) => instRets \subseteq {createRets[1]}

\* instance() was called after the one Create.
C6_Witness ==
    /\ lastOp.op = "instance" /\ Len(createRets) = 1 /\ ~early
    /\ instRets = {createRets[1]}

\* What a read observed is one state of the Manager: the parameters it saw
\* and the cache it saw agree.
Consistent(o) ==
    /\ o.p = o.c
    /\ TwiceSquare(o.fl) = o.c[1] * o.c[1] + o.c[2] * o.c[2]

Supported(cfg) == TagOfName(cfg.model) \in Concrete

\* C8: a Manager constructed from a configuration naming one of the four
\* supported models has dim() equal to that model's DIM, fx(), fy(), cx(),
\* cy() equal to the configured intrinsics and rows(), cols() equal to the
\* configured image size (Pinhole 500, 500, 320, 240 at 640x480: rows() = 480,
\* cols() = 640).
C8_ConstructedFromConfig ==
    (ctor # NoMgr /\ Supported(ctor.cfg) /\ nUpd = 0) =>
        /\ dim = DIM(TagOfName(ctor.cfg.model))
        /\ fx = ctor.cfg.fx /\ fy = ctor.cfg.fy
        /\ cx = ctor.cfg.cx /\ cy = ctor.cfg.cy
        /\ rows = ctor.cfg.rows /\ cols = ctor.cfg.cols
        /\ ctor.cfg = ScenarioCfg => (rows = 480 /\ cols = 640 /\ dim = DIM("Pinhole"))

\* The scenario's Manager has just been constructed.
C8_Witness ==
    /\ lastOp.op = "Create" /\ lastOp.cfg = ScenarioCfg
    /\ rows = 480 /\ cols = 640 /\ fx = 500 /\ cy = 240

\* UpdateState forwarded to the active variant exactly dX[0..DIM) of the
\* variant's own DIM.
ForwardedOwnSlice ==
    /\ vcall.variant = pre.tag
    /\ vcall.op = "UpdateState"
    /\ Len(vcall.arg) = DIM(pre.tag)
    /\ \A i \in 1..DIM(pre.tag) : vcall.arg[i] = lastOp.dX[i]
    /\ mgr.p = [i \in 1..DIM(pre.tag) |-> pre.p[i] + lastOp.dX[i]]

\* UpdateState was the last call, on a concrete variant, and read nothing
\* past the end of dX.
ValidUpdate == Updated /\ pre.tag \in Concrete /\ ~lastOp.oob

\* C9 as stated: a valid UpdateState forwards exactly dX[0..DIM) to the
\* active variant, and dX is at least as long as the largest model's DIM
\* whichever variant is active.
C9_AsStated ==
    ValidUpdate => (ForwardedOwnSlice /\ Len(lastOp.dX) >= MaxDIM)

\* C9 amended: UpdateState forwards to the active variant exactly
\* dX[0..DIM) of the variant's own DIM, and the call is valid exactly when
\* dX is at least as long as the active variant's DIM.
C9_ForwardsOwnSlice ==
    (lastOp.op = "UpdateState" /\ pre.tag \in Concrete) =>
        /\ lastOp.oob <=> Len(lastOp.dX) < DIM(pre.tag)
        /\ status = "abort" => (lastOp.oob /\ mgr = pre /\ vcall = NoCall)
        /\ ValidUpdate => ForwardedOwnSlice

\* A Pinhole Manager updated by a delta of the Pinhole DIM, shorter than
\* the largest model's.
C9_Witness ==
    /\ ValidUpdate /\ pre.tag = "Pinhole"
    /\ Len(lastOp.dX) = DIM("Pinhole") /\ Len(lastOp.dX) < MaxDIM
    /\ ForwardedOwnSlice

\* C10: Project, UnProject, Print and the accessors leave every field of
\* the Manager and the variant's parameters unchanged; UpdateState leaves
\* rows, cols, dim and the variant's tag unchanged; the active variant
\* chosen at construction never changes.
C10_OnlyUpdateStateMutates ==
    /\ lastOp.op \in ({"Project", "UnProject", "Print"} \cup AccessorNames) => mgr = pre
    /\ lastOp.op = "UpdateState" =>
          /\ mgr.rows_ = pre.rows_ /\ mgr.cols_ = pre.cols_
          /\ mgr.dim_ = pre.dim_ /\ mgr.tag = pre.tag
    /\ mgr # NoMgr =>
          /\ mgr.tag = ctor.m.tag
          /\ rows = ctor.m.rows_ /\ cols = ctor.m.cols_ /\ dim = ctor.m.dim_

\* A Project call on a Manager that two UpdateState calls have changed.
C10_Witness ==
    /\ lastOp.op = "Project" /\ status = "running"
    /\ nUpd = 2 /\ mgr # ctor.m /\ mgr = pre

====
